---- MODULE Spec2Model ----
(***************************************************************************)
(* ASIC identification and capability derivation of libdrm-amdgpu-sys:     *)
(* ASIC_NAME::get maps (FAMILY_NAME, chip_external_rev) to an ASIC_NAME,   *)
(* and the capability queries of impl ASIC_NAME derive facts from it.      *)
(* A caller is modelled as a sequence of calls; the state records the      *)
(* arguments and the return value of the latest call.                      *)
(***************************************************************************)
EXTENDS Integers, Sequences, FiniteSets, TLC

VARIABLES
    family,          \* `family` argument of the latest ASIC_NAME::get call, NoFamily if none
    rev,             \* `chip_external_rev` argument of that call
    asic,            \* the ASIC_NAME the caller holds (`self` of the queries)
    first,           \* what the first get call with the current arguments returned
    repeats,         \* how many times get was called again with the same arguments
    call,            \* name of the latest function called
    llvm_major_ver,  \* `llvm_major_ver` argument of the latest get_llvm_processor_name call
    ret,             \* value returned by the latest call when it is an ASIC_NAME or a &str
    ret_bool,        \* value returned by the latest call when it is a bool, else FALSE
    ret_num,         \* value returned by the latest call when it is a u8 or u32, else 0
    devices,         \* one record per DeviceHandle::init call, in call order
    panicked         \* TRUE once an unwrap() has panicked

asic_vars == <<family, rev, asic, first, repeats, call, llvm_major_ver, ret, ret_bool, ret_num>>

vars == <<asic_vars, devices, panicked>>

-----------------------------------------------------------------------------
(* Bounds of the model *)

\* largest 8-bit-and-beyond revision enumerated contiguously (0..=255 and a few above)
MaxRev == 258
\* largest llvm_major_ver enumerated
MaxLlvm == 14
\* how many repeated get calls with the same arguments are tracked
MaxRepeats == 2

\* chip_external_rev is a u32: the contiguous range plus samples above 8 and 16 bits
Revisions == (0..MaxRev) \cup {65536 + 97, 2147483647}

LlvmVersions == 0..MaxLlvm

-----------------------------------------------------------------------------
(* enum ASIC_NAME, in declaration order; the derived PartialOrd compares   *)
(* the discriminants, which are the positions in this list counted from 0. *)

ASIC_NAME_decl ==
    << "CHIP_UNKNOWN",
       \* R3xx-based cores. (GFX2)
       "CHIP_R300", "CHIP_R350", "CHIP_RV350", "CHIP_RV370", "CHIP_RV380",
       "CHIP_RS400", "CHIP_RC410", "CHIP_RS480",
       \* R4xx-based cores. (GFX2)
       "CHIP_R420", "CHIP_R423", "CHIP_R430", "CHIP_R480", "CHIP_R481",
       "CHIP_RV410", "CHIP_RS600", "CHIP_RS690", "CHIP_RS740",
       \* R5xx-based cores. (GFX2)
       "CHIP_RV515", "CHIP_R520", "CHIP_RV530", "CHIP_R580", "CHIP_RV560",
       "CHIP_RV570",
       \* GFX3 (R6xx)
       "CHIP_R600", "CHIP_RV610", "CHIP_RV630", "CHIP_RV670", "CHIP_RV620",
       "CHIP_RV635", "CHIP_RS780", "CHIP_RS880",
       \* GFX3 (R7xx)
       "CHIP_RV770", "CHIP_RV730", "CHIP_RV710", "CHIP_RV740",
       \* GFX4 (Evergreen)
       "CHIP_CEDAR", "CHIP_REDWOOD", "CHIP_JUNIPER", "CHIP_CYPRESS",
       "CHIP_HEMLOCK", "CHIP_PALM", "CHIP_SUMO", "CHIP_SUMO2", "CHIP_BARTS",
       "CHIP_TURKS", "CHIP_CAICOS",
       \* GFX5 (Northern Islands)
       "CHIP_CAYMAN", "CHIP_ARUBA",
       \* GFX6 (Southern Islands)
       "CHIP_TAHITI", "CHIP_PITCAIRN", "CHIP_VERDE", "CHIP_OLAND", "CHIP_HAINAN",
       \* GFX7 (Sea Islands)
       "CHIP_BONAIRE", "CHIP_LIVERPOOL", "CHIP_GLADIUS", "CHIP_KAVERI",
       "CHIP_KABINI", "CHIP_HAWAII",
       \* GFX8 (Volcanic Islands & Polaris)
       "CHIP_TONGA", "CHIP_ICELAND", "CHIP_CARRIZO", "CHIP_FIJI", "CHIP_STONEY",
       "CHIP_POLARIS10", "CHIP_POLARIS11", "CHIP_POLARIS12", "CHIP_VEGAM",
       \* GFX9 (Vega)
       "CHIP_VEGA10", "CHIP_VEGA12", "CHIP_VEGA20", "CHIP_RAVEN", "CHIP_RAVEN2",
       "CHIP_RENOIR", "CHIP_ARCTURUS", "CHIP_ALDEBARAN", "CHIP_GFX940",
       \* GFX10.1 (RDNA 1)
       "CHIP_NAVI10", "CHIP_NAVI12", "CHIP_NAVI14", "CHIP_GFX1013",
       \* GFX10.3 (RDNA 2)
       "CHIP_NAVI21", "CHIP_NAVI22", "CHIP_VANGOGH", "CHIP_NAVI23",
       "CHIP_NAVI24", "CHIP_REMBRANDT", "CHIP_GFX1036",
       \* GFX11 (RDNA 3)
       "CHIP_GFX1100", "CHIP_GFX1101", "CHIP_GFX1102", "CHIP_GFX1103_R1",
       "CHIP_GFX1103_R2", "CHIP_GFX1103_R1X", "CHIP_GFX1103_R2X",
       \* GFX11.5 (RDNA 3.5)
       "CHIP_GFX1150", "CHIP_GFX1151", "CHIP_GFX1152", "CHIP_GFX1153",
       \* GFX12 (RDNA 4)
       "CHIP_GFX1200", "CHIP_GFX1201" >>

ASIC_NAME == { ASIC_NAME_decl[i] : i \in 1..Len(ASIC_NAME_decl) }

\* the discriminants as a table, one entry per variant
Discriminants ==
    [ v \in ASIC_NAME |-> (CHOOSE i \in 1..Len(ASIC_NAME_decl) : ASIC_NAME_decl[i] = v) - 1 ]

\* `v as u32`: CHIP_UNKNOWN = 0 and every later variant one more than its predecessor
Discriminant(v) == Discriminants[v]

Ge_flipped(a, b) == Discriminant(b) >= Discriminant(a)

\* #[derive(PartialOrd)] on a fieldless enum: `a >= b` and `a <= b`
Ge(a, b) == Discriminant(a) >= Discriminant(b)
Le(a, b) == Discriminant(a) <= Discriminant(b)

-----------------------------------------------------------------------------
(* FAMILY_NAME values ASIC_NAME::get distinguishes.  OtherFamily stands for *)
(* any FAMILY_NAME value that only the final wildcard arm matches.          *)

OtherFamily == "_"

RevisionDependentFamilies ==
    { "SI", "CI", "KV", "VI", "AI", "RV", "NV",
      "GC_11_0_0", "GC_11_0_1", "GC_11_5_0", "GC_12_0_0" }

UnconditionalFamilies == { "VGH", "YC", "GC_10_3_6", "GC_10_3_7" }

FAMILY_NAME == RevisionDependentFamilies \cup UnconditionalFamilies \cup {OtherFamily}

\* no get call made yet / the caller named the variant directly
NoFamily == "none"

-----------------------------------------------------------------------------
(* ASIC_NAME::get.  A Rust range pattern `lo..hi` matches lo <= rev < hi;  *)
(* the arms of a match are tried in the order written and the first arm    *)
(* whose pattern matches is taken.                                          *)

InRangeInclusive(r, lo, hi) == lo <= r /\ r <= hi

\* the half-open range pattern `lo..hi`
InRange(r, lo, hi) == lo <= r /\ r < hi

get_SI(r) ==
    IF InRange(r, \h05, \h14) THEN "CHIP_TAHITI"
    ELSE IF InRange(r, \h15, \h28) THEN "CHIP_PITCAIRN"
    ELSE IF InRange(r, \h29, \h3C) THEN "CHIP_VERDE"
    ELSE IF InRange(r, \h3C, \h46) THEN "CHIP_OLAND"
    ELSE IF InRange(r, \h46, \hFF) THEN "CHIP_HAINAN"
    ELSE "CHIP_UNKNOWN"

get_CI(r) ==
    IF InRange(r, \h14, \h28) THEN "CHIP_BONAIRE"
    ELSE IF InRange(r, \h28, \h3C) THEN "CHIP_HAWAII"
    ELSE "CHIP_UNKNOWN"

get_KV_swapped(r) ==
    IF InRange(r, \h01, \h41) \/ InRange(r, \h41, \h61) THEN "CHIP_KAVERI"
    ELSE IF InRange(r, \h61, \h71) \/ InRange(r, \h61, \h71) THEN "CHIP_GLADIUS"
    ELSE IF InRange(r, \h71, \h81) \/ InRange(r, \h71, \h81) THEN "CHIP_LIVERPOOL"
    ELSE IF InRange(r, \h81, \hA1) \/ InRange(r, \hA1, \hFF) THEN "CHIP_KABINI"
    ELSE "CHIP_UNKNOWN"

\* each arm is an or-pattern of two ranges
get_KV(r) ==
    IF InRange(r, \h01, \h41) \/ InRange(r, \h41, \h61) THEN "CHIP_KAVERI"
    ELSE IF InRange(r, \h61, \h71) \/ InRange(r, \h61, \h71) THEN "CHIP_LIVERPOOL"
    ELSE IF InRange(r, \h71, \h81) \/ InRange(r, \h71, \h81) THEN "CHIP_GLADIUS"
    ELSE IF InRange(r, \h81, \hA1) \/ InRange(r, \hA1, \hFF) THEN "CHIP_KABINI"
    ELSE "CHIP_UNKNOWN"

get_VI(r) ==
    IF InRange(r, \h01, \h14) THEN "CHIP_ICELAND"
    ELSE IF InRange(r, \h14, \h28) THEN "CHIP_TONGA"
    ELSE IF InRange(r, \h3C, \h50) THEN "CHIP_FIJI"
    ELSE IF InRange(r, \h50, \h5A) THEN "CHIP_POLARIS10"
    ELSE IF InRange(r, \h5A, \h64) THEN "CHIP_POLARIS11"
    ELSE IF InRange(r, \h64, \h6E) THEN "CHIP_POLARIS12"
    ELSE IF InRange(r, \h6E, \hFF) THEN "CHIP_VEGAM"
    ELSE "CHIP_UNKNOWN"

get_AI(r) ==
    IF InRange(r, \h01, \h14) THEN "CHIP_VEGA10"
    ELSE IF InRange(r, \h14, \h28) THEN "CHIP_VEGA12"
    ELSE IF InRange(r, \h28, \h32) THEN "CHIP_VEGA20"
    ELSE IF InRange(r, \h32, \h3C) THEN "CHIP_ARCTURUS"
    ELSE IF InRange(r, \h3C, \h46) THEN "CHIP_ALDEBARAN"
    ELSE IF InRange(r, \h46, \hFF) THEN "CHIP_GFX940"
    ELSE "CHIP_UNKNOWN"

get_RV_contiguous(r) ==
    IF InRange(r, \h01, \h81) THEN "CHIP_RAVEN"
    ELSE IF InRange(r, \h81, \h90) THEN "CHIP_RAVEN2"
    ELSE IF InRange(r, \h90, \hFF) THEN "CHIP_RENOIR"
    ELSE "CHIP_UNKNOWN"

get_RV(r) ==
    IF InRange(r, \h01, \h81) THEN "CHIP_RAVEN"
    ELSE IF InRange(r, \h81, \h90) THEN "CHIP_RAVEN2"
    ELSE IF InRange(r, \h91, \hFF) THEN "CHIP_RENOIR"
    ELSE "CHIP_UNKNOWN"

get_NV_ranges_only(r) ==
    IF InRange(r, \h01, \h0A) THEN "CHIP_NAVI10"
    ELSE IF InRange(r, \h0A, \h14) THEN "CHIP_NAVI12"
    ELSE IF InRange(r, \h14, \h28) THEN "CHIP_NAVI14"
    ELSE IF InRange(r, \h28, \h32) THEN "CHIP_NAVI21"
    ELSE IF InRange(r, \h32, \h3C) THEN "CHIP_NAVI22"
    ELSE IF InRange(r, \h3C, \h46) THEN "CHIP_NAVI23"
    ELSE IF InRange(r, \h46, \h50) THEN "CHIP_NAVI24"
    ELSE "CHIP_UNKNOWN"

\* the eighth arm is the single-value pattern 0x84
get_NV(r) ==
    IF InRange(r, \h01, \h0A) THEN "CHIP_NAVI10"
    ELSE IF InRange(r, \h0A, \h14) THEN "CHIP_NAVI12"
    ELSE IF InRange(r, \h14, \h28) THEN "CHIP_NAVI14"
    ELSE IF InRange(r, \h28, \h32) THEN "CHIP_NAVI21"
    ELSE IF InRange(r, \h32, \h3C) THEN "CHIP_NAVI22"
    ELSE IF InRange(r, \h3C, \h46) THEN "CHIP_NAVI23"
    ELSE IF InRange(r, \h46, \h50) THEN "CHIP_NAVI24"
    ELSE IF r = \h84 THEN "CHIP_GFX1013"
    ELSE "CHIP_UNKNOWN"

get_GC_11_0_0(r) ==
    IF InRange(r, \h01, \h10) THEN "CHIP_GFX1100"
    ELSE IF InRange(r, \h10, \h20) THEN "CHIP_GFX1102"
    ELSE IF InRange(r, \h20, \hFF) THEN "CHIP_GFX1101"
    ELSE "CHIP_UNKNOWN"

get_GC_11_0_1(r) ==
    IF InRange(r, \h01, \h80) THEN "CHIP_GFX1103_R1"
    ELSE IF InRange(r, \h80, \hC0) THEN "CHIP_GFX1103_R2"
    ELSE IF InRange(r, \hC0, \hF0) THEN "CHIP_GFX1103_R1X"
    ELSE IF InRange(r, \hF0, \hFF) THEN "CHIP_GFX1103_R2X"
    ELSE "CHIP_UNKNOWN"

get_GC_11_5_0(r) ==
    IF InRange(r, \h01, \h40) THEN "CHIP_GFX1150"
    ELSE IF InRange(r, \h40, \h50) THEN "CHIP_GFX1152"
    ELSE IF InRange(r, \h50, \h80) THEN "CHIP_GFX1153"
    ELSE IF InRange(r, \hC0, \hFF) THEN "CHIP_GFX1151"
    ELSE "CHIP_UNKNOWN"

\* stands for a classifier whose fallback is the C enumeration's end marker,
\* which enum ASIC_NAME does not declare
get_GC_12_0_0_last(r) ==
    IF InRange(r, \h40, \h50) THEN "CHIP_GFX1200"
    ELSE IF InRange(r, \h50, \hFF) THEN "CHIP_GFX1201"
    ELSE "CHIP_LAST"

get_GC_12_0_0(r) ==
    IF InRange(r, \h40, \h50) THEN "CHIP_GFX1200"
    ELSE IF InRange(r, \h50, \hFF) THEN "CHIP_GFX1201"
    ELSE "CHIP_UNKNOWN"

\* the outer `match family`
get(f, r) ==
    CASE f = "SI" -> get_SI(r)
      [] f = "CI" -> get_CI(r)
      [] f = "KV" -> get_KV(r)
      [] f = "VI" -> get_VI(r)
      [] f = "AI" -> get_AI(r)
      [] f = "RV" -> get_RV(r)
      [] f = "NV" -> get_NV(r)
      [] f = "VGH" -> "CHIP_VANGOGH"
      [] f = "GC_11_0_0" -> get_GC_11_0_0(r)
      [] f = "YC" -> "CHIP_REMBRANDT"
      [] f = "GC_11_0_1" -> get_GC_11_0_1(r)
      [] f \in {"GC_10_3_6", "GC_10_3_7"} -> "CHIP_GFX1036"
      [] f = "GC_11_5_0" -> get_GC_11_5_0(r)
      [] f = "GC_12_0_0" -> get_GC_12_0_0(r)
      [] OTHER -> "CHIP_UNKNOWN"

-----------------------------------------------------------------------------
(* Capability queries of impl ASIC_NAME; `self` is the variant queried.    *)

KiB == 1024

has_rbplus_gfx10(self) == Ge(self, "CHIP_NAVI10")

has_rbplus(self) == self = "CHIP_STONEY" \/ Ge(self, "CHIP_VEGA10")

rbplus_allowed(self) ==
    has_rbplus(self)
        /\ (\/ self = "CHIP_STONEY"
            \/ self = "CHIP_VEGA12"
            \/ self = "CHIP_RAVEN"
            \/ self = "CHIP_RAVEN2"
            \/ self = "CHIP_RENOIR"
            \/ Ge(self, "CHIP_NAVI21"))

has_packed_math_16bit_gfx8(self) == Ge(self, "CHIP_TONGA")

has_packed_math_16bit(self) == Ge(self, "CHIP_VEGA10")

has_accelerated_dot_product(self) ==
    \/ self = "CHIP_ARCTURUS"
    \/ self = "CHIP_ALDEBARAN"
    \/ self = "CHIP_VEGA20"
    \/ Ge(self, "CHIP_NAVI12")

max_wave64_per_simd_open(self) ==
    IF Ge(self, "CHIP_NAVI21") THEN 16
    ELSE IF Ge(self, "CHIP_NAVI10") THEN 20
    ELSE IF Ge(self, "CHIP_POLARIS10") THEN 8
    ELSE 10

max_wave64_per_simd(self) ==
    IF Ge(self, "CHIP_NAVI21") THEN 16
    ELSE IF Ge(self, "CHIP_NAVI10") THEN 20
    ELSE IF Ge(self, "CHIP_POLARIS10") /\ Le(self, "CHIP_VEGAM") THEN 8
    ELSE 10

num_simd_per_cu(self) == IF Ge(self, "CHIP_NAVI10") THEN 2 ELSE 4

cu_group_gfx11(self) == IF Ge(self, "CHIP_GFX1100") THEN 2 ELSE 1

cu_group(self) == IF Ge(self, "CHIP_NAVI10") THEN 2 ELSE 1

l1_cache_size(self) ==
    IF Ge(self, "CHIP_GFX1100") THEN 32 * KiB ELSE 16 * KiB

gl1_cache_size_default128(self) ==
    IF Ge(self, "CHIP_GFX1200") THEN 0
    ELSE IF Ge(self, "CHIP_GFX1100") THEN 256 * KiB
    ELSE 128 * KiB

gl1_cache_size_no_gfx12(self) ==
    IF Ge(self, "CHIP_GFX1100") THEN 256 * KiB
    ELSE IF Ge(self, "CHIP_NAVI10") THEN 128 * KiB
    ELSE 0

gl1_cache_size(self) ==
    IF Ge(self, "CHIP_GFX1200") THEN 0
    ELSE IF Ge(self, "CHIP_GFX1100") THEN 256 * KiB
    ELSE IF Ge(self, "CHIP_NAVI10") THEN 128 * KiB
    ELSE 0

l2_cache_size_per_block(self) ==
    IF self \in { "CHIP_TAHITI", "CHIP_PITCAIRN", "CHIP_OLAND", "CHIP_HAWAII",
                  "CHIP_KABINI", "CHIP_TONGA", "CHIP_STONEY", "CHIP_RAVEN2" }
        THEN 64 * KiB
    ELSE IF self \in { "CHIP_VERDE", "CHIP_HAINAN", "CHIP_BONAIRE", "CHIP_GLADIUS",
                       "CHIP_LIVERPOOL", "CHIP_KAVERI", "CHIP_ICELAND",
                       "CHIP_CARRIZO", "CHIP_FIJI", "CHIP_POLARIS12", "CHIP_VEGAM" }
        THEN 128 * KiB
    ELSE IF self \in { "CHIP_REMBRANDT", "CHIP_GFX1201" }
        THEN 512 * KiB
    ELSE 256 * KiB

l2_cache_line_size_ladder(self) ==
    IF Ge(self, "CHIP_GFX1200") THEN 256
    ELSE IF Ge(self, "CHIP_NAVI10") THEN 128
    ELSE 64

l2_cache_line_size(self) ==
    IF Ge(self, "CHIP_GFX1200") THEN 256
    ELSE IF Ge(self, "CHIP_NAVI10") \/ self = "CHIP_ALDEBARAN" THEN 128
    ELSE 64

l3_cache_size_mb_per_channel(self) ==
    IF self \in { "CHIP_NAVI21", "CHIP_NAVI22" } THEN 8
    ELSE IF self \in { "CHIP_NAVI23", "CHIP_NAVI24", "CHIP_GFX1100", "CHIP_GFX1101",
                       "CHIP_GFX1102", "CHIP_GFX1200", "CHIP_GFX1201" } THEN 4
    ELSE IF self = "CHIP_GFX1151" THEN 2
    ELSE 0

DowngradeAlways(ver, since, native) == "gfx1030"

DowngradeOffByOne(ver, since, native) == IF ver > since THEN native ELSE "gfx1030"

\* `if llvm_major_ver >= since { native } else { "gfx1030" }`
Downgrade(ver, since, native) == IF ver >= since THEN native ELSE "gfx1030"

get_llvm_processor_name(self, ver) ==
    CASE self = "CHIP_TAHITI" -> "tahiti"
      [] self = "CHIP_PITCAIRN" -> "pitcairn"
      [] self = "CHIP_VERDE" -> "verde"
      [] self = "CHIP_OLAND" -> "oland"
      [] self = "CHIP_HAINAN" -> "hainan"
      [] self = "CHIP_BONAIRE" -> "bonaire"
      [] self = "CHIP_LIVERPOOL" -> "liverpool"
      [] self = "CHIP_GLADIUS" -> "gladius"
      [] self = "CHIP_KABINI" -> "kabini"
      [] self = "CHIP_KAVERI" -> "kaveri"
      [] self = "CHIP_HAWAII" -> "hawaii"
      [] self = "CHIP_TONGA" -> "tonga"
      [] self = "CHIP_ICELAND" -> "iceland"
      [] self = "CHIP_CARRIZO" -> "carrizo"
      [] self = "CHIP_FIJI" -> "fiji"
      [] self = "CHIP_STONEY" -> "stoney"
      [] self = "CHIP_POLARIS10" -> "polaris10"
      [] self \in {"CHIP_POLARIS11", "CHIP_POLARIS12", "CHIP_VEGAM"} -> "polaris11"
      [] self = "CHIP_VEGA10" -> "gfx900"
      [] self = "CHIP_RAVEN" -> "gfx902"
      [] self = "CHIP_VEGA12" -> "gfx904"
      [] self = "CHIP_VEGA20" -> "gfx906"
      [] self \in {"CHIP_RAVEN2", "CHIP_RENOIR"} -> "gfx909"
      [] self = "CHIP_ARCTURUS" -> "gfx908"
      [] self = "CHIP_ALDEBARAN" -> "gfx90a"
      [] self = "CHIP_NAVI10" -> "gfx1010"
      [] self = "CHIP_NAVI12" -> "gfx1011"
      [] self = "CHIP_NAVI14" -> "gfx1012"
      [] self = "CHIP_GFX1013" -> "gfx1013"
      [] self = "CHIP_NAVI21" -> "gfx1030"
      [] self = "CHIP_NAVI22" -> Downgrade(ver, 12, "gfx1031")
      [] self = "CHIP_NAVI23" -> Downgrade(ver, 12, "gfx1032")
      [] self = "CHIP_VANGOGH" -> Downgrade(ver, 12, "gfx1033")
      [] self = "CHIP_NAVI24" -> Downgrade(ver, 13, "gfx1034")
      [] self = "CHIP_REMBRANDT" -> Downgrade(ver, 13, "gfx1035")
      [] self = "CHIP_GFX1036" -> "gfx1030"
      [] self = "CHIP_GFX1100" -> "gfx1100"
      [] self = "CHIP_GFX1101" -> "gfx1101"
      [] self = "CHIP_GFX1102" -> "gfx1102"
      [] self \in {"CHIP_GFX1103_R1", "CHIP_GFX1103_R2"} -> "gfx1103"
      [] OTHER -> ""

get_gfx_target_name_via_llvm(self) == get_llvm_processor_name(self, 0)

get_gfx_target_name(self) ==
    CASE self = "CHIP_TAHITI" -> "gfx600"
      [] self \in {"CHIP_PITCAIRN", "CHIP_VERDE"} -> "gfx601"
      [] self \in {"CHIP_OLAND", "CHIP_HAINAN"} -> "gfx602"
      [] self = "CHIP_BONAIRE" -> "gfx704"
      [] self = "CHIP_LIVERPOOL" -> "gfx704"
      [] self = "CHIP_GLADIUS" -> "gfx704"
      [] self = "CHIP_KABINI" -> "gfx703"
      [] self = "CHIP_KAVERI" -> "gfx700"
      [] self = "CHIP_HAWAII" -> "gfx701"
      [] self \in {"CHIP_TONGA", "CHIP_ICELAND"} -> "gfx802"
      [] self = "CHIP_CARRIZO" -> "gfx801"
      [] self = "CHIP_FIJI" -> "gfx803"
      [] self = "CHIP_STONEY" -> "gfx810"
      [] self \in {"CHIP_POLARIS10", "CHIP_POLARIS11", "CHIP_POLARIS12", "CHIP_VEGAM"} -> "gfx803"
      [] self = "CHIP_VEGA10" -> "gfx900"
      [] self = "CHIP_RAVEN" -> "gfx902"
      [] self = "CHIP_VEGA12" -> "gfx904"
      [] self = "CHIP_VEGA20" -> "gfx906"
      [] self \in {"CHIP_RAVEN2", "CHIP_RENOIR"} -> "gfx909"
      [] self = "CHIP_ARCTURUS" -> "gfx908"
      [] self = "CHIP_ALDEBARAN" -> "gfx90a"
      [] self = "CHIP_NAVI10" -> "gfx1010"
      [] self = "CHIP_NAVI12" -> "gfx1011"
      [] self = "CHIP_NAVI14" -> "gfx1012"
      [] self = "CHIP_GFX1013" -> "gfx1013"
      [] self = "CHIP_NAVI21" -> "gfx1030"
      [] self = "CHIP_NAVI22" -> "gfx1031"
      [] self = "CHIP_NAVI23" -> "gfx1032"
      [] self = "CHIP_VANGOGH" -> "gfx1033"
      [] self = "CHIP_NAVI24" -> "gfx1034"
      [] self = "CHIP_REMBRANDT" -> "gfx1035"
      [] self = "CHIP_GFX1036" -> "gfx1030"
      [] self = "CHIP_GFX1100" -> "gfx1100"
      [] self = "CHIP_GFX1101" -> "gfx1101"
      [] self = "CHIP_GFX1102" -> "gfx1102"
      [] self \in {"CHIP_GFX1103_R1", "CHIP_GFX1103_R2"} -> "gfx1103"
      [] OTHER -> ""

-----------------------------------------------------------------------------
(* impl fmt::Display for ASIC_NAME: the arms of the match as pairs          *)
(* <<variant, label written>>, in the order they are written.               *)

DisplayLabels ==
    <<
       <<"CHIP_UNKNOWN", "Unknown">>, <<"CHIP_R300", "R300">>, <<"CHIP_R350", "R350">>,
       <<"CHIP_RV350", "RV350">>, <<"CHIP_RV370", "RV370">>, <<"CHIP_RV380", "RV380">>,
       <<"CHIP_RS400", "RS400">>, <<"CHIP_RC410", "RC410">>, <<"CHIP_RS480", "RS480">>,
       <<"CHIP_R420", "R420">>, <<"CHIP_R423", "R423">>, <<"CHIP_R430", "R430">>,
       <<"CHIP_R480", "R480">>, <<"CHIP_R481", "R481">>, <<"CHIP_RV410", "RV410">>,
       <<"CHIP_RS600", "RS600">>, <<"CHIP_RS690", "RS690">>, <<"CHIP_RS740", "RS740">>,
       <<"CHIP_RV515", "RV515">>, <<"CHIP_R520", "R520">>, <<"CHIP_RV530", "RV530">>,
       <<"CHIP_R580", "R580">>, <<"CHIP_RV560", "RV560">>, <<"CHIP_RV570", "RV570">>,
       <<"CHIP_R600", "R600">>, <<"CHIP_RV610", "RV610">>, <<"CHIP_RV630", "RV630">>,
       <<"CHIP_RV670", "RV670">>, <<"CHIP_RV620", "RV620">>, <<"CHIP_RV635", "RV635">>,
       <<"CHIP_RS780", "RS780">>, <<"CHIP_RS880", "RS880">>, <<"CHIP_RV770", "RV770">>,
       <<"CHIP_RV730", "RV730">>, <<"CHIP_RV710", "RV710">>, <<"CHIP_RV740", "RV740">>,
       <<"CHIP_CEDAR", "Cedar">>, <<"CHIP_REDWOOD", "Redwood">>,
       <<"CHIP_JUNIPER", "Jupiter">>, <<"CHIP_CYPRESS", "Cypress">>,
       <<"CHIP_HEMLOCK", "Hemlock">>, <<"CHIP_PALM", "Palm">>, <<"CHIP_SUMO", "Sumo">>,
       <<"CHIP_SUMO2", "Sumo2">>, <<"CHIP_BARTS", "Barts">>, <<"CHIP_TURKS", "Turks">>,
       <<"CHIP_CAICOS", "Caicos">>, <<"CHIP_CAYMAN", "Cayman">>,
       <<"CHIP_ARUBA", "Aruba">>, <<"CHIP_TAHITI", "Tahiti">>,
       <<"CHIP_PITCAIRN", "Pitcairn">>, <<"CHIP_VERDE", "Verde">>,
       <<"CHIP_OLAND", "Oland">>, <<"CHIP_HAINAN", "Hainan">>,
       <<"CHIP_BONAIRE", "Bonaire">>, <<"CHIP_LIVERPOOL", "Liverpool">>,
       <<"CHIP_GLADIUS", "Gladius">>, <<"CHIP_KAVERI", "Kaveri">>,
       <<"CHIP_KABINI", "Kabini">>, <<"CHIP_HAWAII", "Hawaii">>,
       <<"CHIP_TONGA", "Tonga">>, <<"CHIP_ICELAND", "Iceland">>,
       <<"CHIP_CARRIZO", "Carrizo">>, <<"CHIP_FIJI", "Fiji">>,
       <<"CHIP_STONEY", "Stoney">>, <<"CHIP_POLARIS10", "Polaris10">>,
       <<"CHIP_POLARIS11", "Polaris11">>, <<"CHIP_POLARIS12", "Polaris12">>,
       <<"CHIP_VEGAM", "VegaM">>, <<"CHIP_VEGA10", "Vega10">>,
       <<"CHIP_VEGA12", "Vega12">>, <<"CHIP_VEGA20", "Vega20">>,
       <<"CHIP_RAVEN", "Raven">>, <<"CHIP_RAVEN2", "Raven2">>,
       <<"CHIP_RENOIR", "Renoir">>, <<"CHIP_ARCTURUS", "Arcturus/MI100">>,
       <<"CHIP_ALDEBARAN", "Aldebaran/MI200">>, <<"CHIP_GFX940", "GFX940/MI300">>,
       <<"CHIP_NAVI10", "Navi10">>, <<"CHIP_NAVI12", "Navi12">>,
       <<"CHIP_NAVI14", "Navi14">>, <<"CHIP_GFX1013", "GFX1013/Cyan Skillfish">>,
       <<"CHIP_NAVI21", "Sienna Cichlid/Navi21">>,
       <<"CHIP_NAVI22", "Navy Flounder/Navi22">>, <<"CHIP_VANGOGH", "VanGogh">>,
       <<"CHIP_NAVI23", "Dimgrey Cavefish/Navi23">>,
       <<"CHIP_NAVI24", "Beige Goby/Navi24">>,
       <<"CHIP_REMBRANDT", "Yellow Carp/Rembrandt">>,
       <<"CHIP_GFX1036", "GFX1036/Raphael/Mendocino/Granite Ridge">>,
       <<"CHIP_GFX1100", "GFX1100/Navi31">>, <<"CHIP_GFX1101", "GFX1101/Navi32">>,
       <<"CHIP_GFX1102", "GFX1102/Navi33">>,
       <<"CHIP_GFX1103_R1", "GFX1103_R1/Phoenix1">>,
       <<"CHIP_GFX1103_R2", "GFX1103_R2/Phoenix2">>,
       <<"CHIP_GFX1103_R1X", "GFX1103_R1X/Hawk Point1">>,
       <<"CHIP_GFX1103_R2X", "GFX1103_R2X/Hawk Point2">>,
       <<"CHIP_GFX1150", "GFX1150/Strix Point">>,
       <<"CHIP_GFX1151", "GFX1151/Strix Halo">>, <<"CHIP_GFX1152", "GFX1152">>,
       <<"CHIP_GFX1153", "GFX1153">>, <<"CHIP_GFX1200", "GFX1200">>,
       <<"CHIP_GFX1201", "GFX1201">>
    >>

\* stands for a Display that prints the variant's identifier without its CHIP_ prefix
fmt_identifier(self) == SubSeq(self, 6, Len(self))

\* the label written by the first arm that matches `self`
fmt(self) ==
    DisplayLabels[CHOOSE i \in 1..Len(DisplayLabels) :
                      /\ DisplayLabels[i][1] = self
                      /\ \A j \in 1..(i - 1) : DisplayLabels[j][1] # self][2]

-----------------------------------------------------------------------------
(* The caller.  Under SpecGet the arguments of ASIC_NAME::get are drawn in *)
(* the initial state and get is applied to them, once and then again with  *)
(* the same arguments.  Under SpecQuery the caller holds any ASIC_NAME     *)
(* (the enum is public) and applies the capability queries to it.          *)

NoValue == "none"

InitGet ==
    /\ family \in FAMILY_NAME
    /\ rev \in Revisions
    /\ asic = NoValue
    /\ first = NoValue
    /\ repeats = 0
    /\ call = "none"
    /\ llvm_major_ver = 0
    /\ ret = NoValue
    /\ ret_bool = FALSE
    /\ ret_num = 0
    /\ devices = <<>>
    /\ panicked = FALSE

\* let asic = ASIC_NAME::get(family, rev)
Get ==
    /\ call = "none"
    /\ asic' = get(family, rev)
    /\ first' = asic'
    /\ ret' = asic'
    /\ call' = "get"
    /\ UNCHANGED <<devices, panicked, family, rev, repeats, llvm_major_ver, ret_bool, ret_num>>

\* a further call with the same arguments
GetAgain ==
    /\ call = "get"
    /\ repeats < MaxRepeats
    /\ asic' = get(family, rev)
    /\ ret' = asic'
    /\ repeats' = repeats + 1
    /\ UNCHANGED <<devices, panicked, family, rev, first, call, llvm_major_ver, ret_bool, ret_num>>

NextGet == Get \/ GetAgain

SpecGet == InitGet /\ [][NextGet]_vars

InitQuery ==
    /\ family = NoFamily
    /\ rev = 0
    /\ asic \in ASIC_NAME
    /\ first = NoValue
    /\ repeats = 0
    /\ call = "none"
    /\ llvm_major_ver = 0
    /\ ret = NoValue
    /\ ret_bool = FALSE
    /\ ret_num = 0
    /\ devices = <<>>
    /\ panicked = FALSE

\* a query without further arguments returns the bool, the number or the &str given
ReturnsBool(name, value) ==
    /\ call' = name
    /\ ret_bool' = value
    /\ ret' = NoValue
    /\ ret_num' = 0
    /\ UNCHANGED <<devices, panicked, family, rev, asic, first, repeats, llvm_major_ver>>

ReturnsNum(name, value) ==
    /\ call' = name
    /\ ret_num' = value
    /\ ret' = NoValue
    /\ ret_bool' = FALSE
    /\ UNCHANGED <<devices, panicked, family, rev, asic, first, repeats, llvm_major_ver>>

ReturnsName(name, value) ==
    /\ call' = name
    /\ ret' = value
    /\ ret_bool' = FALSE
    /\ ret_num' = 0
    /\ UNCHANGED <<devices, panicked, family, rev, asic, first, repeats, llvm_major_ver>>

RbplusAllowed == ReturnsBool("rbplus_allowed", rbplus_allowed(asic))
HasPackedMath16bit == ReturnsBool("has_packed_math_16bit", has_packed_math_16bit(asic))
HasAcceleratedDotProduct ==
    ReturnsBool("has_accelerated_dot_product", has_accelerated_dot_product(asic))
MaxWave64PerSimd == ReturnsNum("max_wave64_per_simd", max_wave64_per_simd(asic))
NumSimdPerCu == ReturnsNum("num_simd_per_cu", num_simd_per_cu(asic))
CuGroup == ReturnsNum("cu_group", cu_group(asic))
L1CacheSize == ReturnsNum("l1_cache_size", l1_cache_size(asic))
Gl1CacheSize == ReturnsNum("gl1_cache_size", gl1_cache_size(asic))
L2CacheSizePerBlock == ReturnsNum("l2_cache_size_per_block", l2_cache_size_per_block(asic))
L2CacheLineSize == ReturnsNum("l2_cache_line_size", l2_cache_line_size(asic))
L3CacheSizeMbPerChannel ==
    ReturnsNum("l3_cache_size_mb_per_channel", l3_cache_size_mb_per_channel(asic))
GetGfxTargetName == ReturnsName("get_gfx_target_name", get_gfx_target_name(asic))

\* format!("{}", asic)
Fmt == ReturnsName("fmt", fmt(asic))

GetLlvmProcessorName ==
    \E ver \in LlvmVersions :
        /\ call' = "get_llvm_processor_name"
        /\ llvm_major_ver' = ver
        /\ ret' = get_llvm_processor_name(asic, ver)
        /\ ret_bool' = FALSE
        /\ ret_num' = 0
        /\ UNCHANGED <<devices, panicked, family, rev, asic, first, repeats>>

NextQuery ==
    \/ RbplusAllowed
    \/ HasPackedMath16bit
    \/ HasAcceleratedDotProduct
    \/ MaxWave64PerSimd
    \/ NumSimdPerCu
    \/ CuGroup
    \/ L1CacheSize
    \/ Gl1CacheSize
    \/ L2CacheSizePerBlock
    \/ L2CacheLineSize
    \/ L3CacheSizeMbPerChannel
    \/ GetLlvmProcessorName
    \/ GetGfxTargetName
    \/ Fmt

SpecQuery == InitQuery /\ [][NextQuery]_vars

-----------------------------------------------------------------------------
(* src/amdgpu/device_handle.rs: the lifecycle of DeviceHandle.  The native *)
(* library is outside the program: what amdgpu_device_initialize and       *)
(* amdgpu_device_deinitialize return is an input of each call.             *)

MaxDevices == 3

Fds == {3, 4}

\* a native call returns 0 on success and a negated errno otherwise
ErrorCodes == {-22, -13}

ReturnCodes == {0} \cup ErrorCodes

\* query_error!(r): leaves the enclosing function with Err(r) when r is not 0
query_error(r) == r # 0

\* Self(amdgpu_dev.assume_init(), fd), with the code amdgpu_device_initialize
\* returned for it and the native calls made on it so far
DeviceHandle(fd, r) ==
    [fd |-> fd, initialize |-> r, deinitialize_calls |-> 0, dropped |-> FALSE,
     returned |-> "Ok", err |-> 0]

\* self.deinit() when amdgpu_device_deinitialize returns d
deinit(self, d) ==
    [self |-> [self EXCEPT !.deinitialize_calls = @ + 1],
     result |-> IF query_error(d) THEN "Err" ELSE "Ok"]

\* Drop::drop: self.deinit().unwrap()
drop(self, d) ==
    LET done == deinit(self, d)
    IN  [self |-> [done.self EXCEPT !.dropped = TRUE],
         panic |-> done.result = "Err"]

\* DeviceHandle::init(fd) when amdgpu_device_initialize returns r: the
\* DeviceHandle is built before query_error!(r), so the early return drops it
\* (d is what amdgpu_device_deinitialize returns in that drop)
init(fd, r, d) ==
    LET amdgpu_dev == DeviceHandle(fd, r)
    IN  IF query_error(r)
        THEN LET gone == drop(amdgpu_dev, d)
             IN  [self |-> [gone.self EXCEPT
                              !.returned = IF gone.panic THEN "panic" ELSE "Err",
                              !.err = IF gone.panic THEN 0 ELSE r],
                  panic |-> gone.panic]
        ELSE [self |-> amdgpu_dev, panic |-> FALSE]

InitDevice ==
    /\ family = NoFamily
    /\ rev = 0
    /\ asic = NoValue
    /\ first = NoValue
    /\ repeats = 0
    /\ call = "none"
    /\ llvm_major_ver = 0
    /\ ret = NoValue
    /\ ret_bool = FALSE
    /\ ret_num = 0
    /\ devices = <<>>
    /\ panicked = FALSE

\* let r = DeviceHandle::init(fd)
DeviceInit ==
    /\ ~panicked
    /\ Len(devices) < MaxDevices
    /\ \E fd \in Fds, r \in ReturnCodes, d \in ReturnCodes :
         LET out == init(fd, r, d)
         IN  /\ devices' = Append(devices, out.self)
             /\ panicked' = out.panic
    /\ UNCHANGED asic_vars

\* a DeviceHandle that init returned goes out of scope
DeviceDrop ==
    /\ ~panicked
    /\ \E i \in DOMAIN devices, d \in ReturnCodes :
         /\ devices[i].returned = "Ok"
         /\ ~devices[i].dropped
         /\ LET out == drop(devices[i], d)
            IN  /\ devices' = [devices EXCEPT ![i] = out.self]
                /\ panicked' = out.panic
    /\ UNCHANGED asic_vars

NextDevice == DeviceInit \/ DeviceDrop

SpecDevice == InitDevice /\ [][NextDevice]_vars

-----------------------------------------------------------------------------
(* The revision patterns of ASIC_NAME::get as data: for each family the    *)
(* ranges <<lo, hi, variant>> in the order they are written, an or-pattern *)
(* contributing its ranges left to right and the single value 0x84 the     *)
(* range [0x84, 0x85).  Families without a revision match have none.       *)

DeclaredIntervals(f) ==
    CASE f = "SI" -> << <<\h05, \h14, "CHIP_TAHITI">>, <<\h15, \h28, "CHIP_PITCAIRN">>,
                        <<\h29, \h3C, "CHIP_VERDE">>, <<\h3C, \h46, "CHIP_OLAND">>,
                        <<\h46, \hFF, "CHIP_HAINAN">> >>
      [] f = "CI" -> << <<\h14, \h28, "CHIP_BONAIRE">>, <<\h28, \h3C, "CHIP_HAWAII">> >>
      [] f = "KV" -> << <<\h01, \h41, "CHIP_KAVERI">>, <<\h41, \h61, "CHIP_KAVERI">>,
                        <<\h61, \h71, "CHIP_LIVERPOOL">>, <<\h61, \h71, "CHIP_LIVERPOOL">>,
                        <<\h71, \h81, "CHIP_GLADIUS">>, <<\h71, \h81, "CHIP_GLADIUS">>,
                        <<\h81, \hA1, "CHIP_KABINI">>, <<\hA1, \hFF, "CHIP_KABINI">> >>
      [] f = "VI" -> << <<\h01, \h14, "CHIP_ICELAND">>, <<\h14, \h28, "CHIP_TONGA">>,
                        <<\h3C, \h50, "CHIP_FIJI">>, <<\h50, \h5A, "CHIP_POLARIS10">>,
                        <<\h5A, \h64, "CHIP_POLARIS11">>, <<\h64, \h6E, "CHIP_POLARIS12">>,
                        <<\h6E, \hFF, "CHIP_VEGAM">> >>
      [] f = "AI" -> << <<\h01, \h14, "CHIP_VEGA10">>, <<\h14, \h28, "CHIP_VEGA12">>,
                        <<\h28, \h32, "CHIP_VEGA20">>, <<\h32, \h3C, "CHIP_ARCTURUS">>,
                        <<\h3C, \h46, "CHIP_ALDEBARAN">>, <<\h46, \hFF, "CHIP_GFX940">> >>
      [] f = "RV" -> << <<\h01, \h81, "CHIP_RAVEN">>, <<\h81, \h90, "CHIP_RAVEN2">>,
                        <<\h91, \hFF, "CHIP_RENOIR">> >>
      [] f = "NV" -> << <<\h01, \h0A, "CHIP_NAVI10">>, <<\h0A, \h14, "CHIP_NAVI12">>,
                        <<\h14, \h28, "CHIP_NAVI14">>, <<\h28, \h32, "CHIP_NAVI21">>,
                        <<\h32, \h3C, "CHIP_NAVI22">>, <<\h3C, \h46, "CHIP_NAVI23">>,
                        <<\h46, \h50, "CHIP_NAVI24">>, <<\h84, \h85, "CHIP_GFX1013">> >>
      [] f = "GC_11_0_0" -> << <<\h01, \h10, "CHIP_GFX1100">>, <<\h10, \h20, "CHIP_GFX1102">>,
                               <<\h20, \hFF, "CHIP_GFX1101">> >>
      [] f = "GC_11_0_1" -> << <<\h01, \h80, "CHIP_GFX1103_R1">>,
                               <<\h80, \hC0, "CHIP_GFX1103_R2">>,
                               <<\hC0, \hF0, "CHIP_GFX1103_R1X">>,
                               <<\hF0, \hFF, "CHIP_GFX1103_R2X">> >>
      [] f = "GC_11_5_0" -> << <<\h01, \h40, "CHIP_GFX1150">>, <<\h40, \h50, "CHIP_GFX1152">>,
                               <<\h50, \h80, "CHIP_GFX1153">>, <<\hC0, \hFF, "CHIP_GFX1151">> >>
      [] f = "GC_12_0_0" -> << <<\h40, \h50, "CHIP_GFX1200">>, <<\h50, \hFF, "CHIP_GFX1201">> >>
      [] OTHER -> << >>

\* the positions of the declared intervals of family f that contain revision r
Containing(f, r) ==
    { i \in 1..Len(DeclaredIntervals(f)) :
        DeclaredIntervals(f)[i][1] <= r /\ r < DeclaredIntervals(f)[i][2] }

\* the variant of the first declared interval containing r, CHIP_UNKNOWN if none does
FirstMatch(f, r) ==
    IF Containing(f, r) = {} THEN "CHIP_UNKNOWN"
    ELSE DeclaredIntervals(f)[CHOOSE i \in Containing(f, r) :
                                 \A j \in Containing(f, r) : i <= j][3]

\* the revisions covered by the intervals family f declares for variant v
Covered(f, v) ==
    { r \in Revisions :
        \E i \in Containing(f, r) : DeclaredIntervals(f)[i][3] = v }

\* the set of interval bounds family f declares for variant v
BoundsOf(f, v) ==
    { <<DeclaredIntervals(f)[i][1], DeclaredIntervals(f)[i][2]>> :
        i \in { j \in 1..Len(DeclaredIntervals(f)) : DeclaredIntervals(f)[j][3] = v } }

-----------------------------------------------------------------------------
(* Claims about ASIC_NAME::get, checked under SpecGet                      *)

\* C1: ASIC_NAME::get is total: for every FAMILY_NAME value and every revision
\* the call can be made and returns exactly one value, a member of ASIC_NAME
\* (possibly CHIP_UNKNOWN); a repeated call returns a member as well.
C1_GetTotal ==
    /\ call = "none" => ENABLED Get
    /\ call = "get" => ret \in ASIC_NAME /\ asic = ret

\* C1 witness: a call in a revision-dependent family that falls through to the sentinel
C1_Witness ==
    call = "get" /\ family = "GC_12_0_0" /\ rev = 255 /\ ret = "CHIP_UNKNOWN"

\* C2 as stated: for EVERY family, get returns the variant of the first declared
\* interval containing the revision and CHIP_UNKNOWN when no interval contains it.
C2_Original ==
    call = "get" => ret = FirstMatch(family, rev)

\* C2 amended: in every family that matches on the revision, get returns the variant
\* of the first-declared half-open interval [lo, hi) containing the revision and
\* CHIP_UNKNOWN when none does (so VI [0x5A,0x64) is CHIP_POLARIS11, SI [0x05,0x14)
\* is CHIP_TAHITI and SI [0x15,0x28) is CHIP_PITCAIRN); the families VGH, YC,
\* GC_10_3_6 and GC_10_3_7 declare no interval and return CHIP_VANGOGH,
\* CHIP_REMBRANDT, CHIP_GFX1036 and CHIP_GFX1036 for every revision; any other
\* family returns CHIP_UNKNOWN.
C2_FirstIntervalWins ==
    call = "get" =>
        /\ family \notin UnconditionalFamilies => ret = FirstMatch(family, rev)
        /\ family = "VI" /\ \h5A <= rev /\ rev < \h64 => ret = "CHIP_POLARIS11"
        /\ family = "SI" /\ \h05 <= rev /\ rev < \h14 => ret = "CHIP_TAHITI"
        /\ family = "SI" /\ \h15 <= rev /\ rev < \h28 => ret = "CHIP_PITCAIRN"
        /\ family = "VGH" => ret = "CHIP_VANGOGH"
        /\ family = "YC" => ret = "CHIP_REMBRANDT"
        /\ family \in {"GC_10_3_6", "GC_10_3_7"} => ret = "CHIP_GFX1036"

\* C2 witness: the last revision of an interval, one below the excluded upper bound
C2_Witness ==
    call = "get" /\ family = "SI" /\ rev = \h13 /\ ret = "CHIP_TAHITI"

\* C3: unmapped pairs resolve to CHIP_UNKNOWN and nothing is rejected: a family the
\* classifier does not handle yields CHIP_UNKNOWN for every revision; in every
\* revision-dependent family revision 0 and every revision >= 0xFF (also above
\* 8 bits) yield CHIP_UNKNOWN, as do the gaps SI 0x14 and 0x28, VI 0x28..0x3B,
\* RV 0x90 and NV 0x50..0x83.
C3_UnmappedIsUnknown ==
    call = "get" =>
        /\ ret \in ASIC_NAME
        /\ family = OtherFamily => ret = "CHIP_UNKNOWN"
        /\ family \in RevisionDependentFamilies /\ (rev = 0 \/ rev >= \hFF)
              => ret = "CHIP_UNKNOWN"
        /\ family = "SI" /\ rev \in {\h14, \h28} => ret = "CHIP_UNKNOWN"
        /\ family = "VI" /\ \h28 <= rev /\ rev <= \h3B => ret = "CHIP_UNKNOWN"
        /\ family = "RV" /\ rev = \h90 => ret = "CHIP_UNKNOWN"
        /\ family = "NV" /\ \h50 <= rev /\ rev <= \h83 => ret = "CHIP_UNKNOWN"

\* C3 witness: a revision above 16 bits in a revision-dependent family
C3_Witness ==
    call = "get" /\ family = "RV" /\ rev > 65535 /\ ret = "CHIP_UNKNOWN"

\* C3 second case reached as well: a gap between two declared intervals
C3_GapWitness ==
    call = "get" /\ family = "RV" /\ rev = \h90 /\ ret = "CHIP_UNKNOWN"

-----------------------------------------------------------------------------
(* Claims about the capability queries, checked under SpecQuery            *)

\* the variants declared from a to b, both included (`a..=b` in declaration order)
Block(a, b) ==
    { ASIC_NAME_decl[i] : i \in (Discriminant(a) + 1)..(Discriminant(b) + 1) }

\* the variants declared from a on (`v >= a`)
From(a) == Block(a, ASIC_NAME_decl[Len(ASIC_NAME_decl)])

BoolQueries == { "rbplus_allowed", "has_packed_math_16bit", "has_accelerated_dot_product" }

NumQueries ==
    { "max_wave64_per_simd", "num_simd_per_cu", "cu_group", "l1_cache_size",
      "gl1_cache_size", "l2_cache_size_per_block", "l2_cache_line_size",
      "l3_cache_size_mb_per_channel" }

NameQueries == { "get_llvm_processor_name", "get_gfx_target_name" }

\* the returned value has the type of the query called
Typed ==
    /\ call \in BoolQueries => ret_bool \in BOOLEAN
    /\ call \in NumQueries => ret_num \in Nat
    /\ call \in NameQueries => ret \in STRING /\ ret # NoValue

\* C5 as stated: every query returns a value for every variant, and for
\* CHIP_UNKNOWN the value is 0, false or the empty string in EVERY query.
C5_Original ==
    /\ Typed
    /\ asic = "CHIP_UNKNOWN" =>
        /\ call \in BoolQueries => ret_bool = FALSE
        /\ call \in NumQueries => ret_num = 0
        /\ call \in NameQueries => ret = ""

\* C5 amended: every capability query returns a value for every variant including
\* CHIP_UNKNOWN; for CHIP_UNKNOWN the three predicates return false, both name
\* queries return "" and gl1_cache_size and l3_cache_size_mb_per_channel return 0,
\* while the other numeric queries return their fall-through value:
\* max_wave64_per_simd 10, num_simd_per_cu 4, cu_group 1, l1_cache_size 16 KiB,
\* l2_cache_size_per_block 256 KiB and l2_cache_line_size 64.
C5_UnknownDefaults ==
    /\ Typed
    /\ asic = "CHIP_UNKNOWN" =>
        /\ call \in BoolQueries => ret_bool = FALSE
        /\ call \in NameQueries => ret = ""
        /\ call \in {"gl1_cache_size", "l3_cache_size_mb_per_channel"} => ret_num = 0
        /\ call = "max_wave64_per_simd" => ret_num = 10
        /\ call = "num_simd_per_cu" => ret_num = 4
        /\ call = "cu_group" => ret_num = 1
        /\ call = "l1_cache_size" => ret_num = 16384
        /\ call = "l2_cache_size_per_block" => ret_num = 262144
        /\ call = "l2_cache_line_size" => ret_num = 64

\* C5 witness: a numeric query on CHIP_UNKNOWN that returns 0
C5_Witness ==
    asic = "CHIP_UNKNOWN" /\ call = "gl1_cache_size" /\ ret_num = 0

\* C5 witness of the amended part: a numeric query on CHIP_UNKNOWN returning non-zero
C5_NonZeroWitness ==
    asic = "CHIP_UNKNOWN" /\ call = "max_wave64_per_simd" /\ ret_num = 10

\* C6: l2_cache_line_size is 256 for every variant >= CHIP_GFX1200, 128 for
\* CHIP_NAVI10..=CHIP_GFX1153 and for CHIP_ALDEBARAN, and 64 for every other
\* variant (CHIP_TAHITI, CHIP_GFX940 and CHIP_UNKNOWN among them).
C6_L2CacheLineSize ==
    call = "l2_cache_line_size" =>
        /\ asic \in From("CHIP_GFX1200") => ret_num = 256
        /\ asic \in Block("CHIP_NAVI10", "CHIP_GFX1153") \cup {"CHIP_ALDEBARAN"} => ret_num = 128
        /\ asic \notin From("CHIP_GFX1200") \cup Block("CHIP_NAVI10", "CHIP_GFX1153")
                        \cup {"CHIP_ALDEBARAN"} => ret_num = 64
        /\ asic \in {"CHIP_TAHITI", "CHIP_GFX940", "CHIP_UNKNOWN"} => ret_num = 64

\* C6 witness: the single pre-Navi variant with 128-byte lines
C6_Witness ==
    call = "l2_cache_line_size" /\ asic = "CHIP_ALDEBARAN" /\ ret_num = 128

\* C7: max_wave64_per_simd is 16 for every variant >= CHIP_NAVI21, 20 for
\* CHIP_NAVI10..=CHIP_GFX1013, 8 for CHIP_POLARIS10..=CHIP_VEGAM and 10 for every
\* other variant; the four cases are mutually exclusive and cover all variants.
C7_MaxWave64PerSimd ==
    LET c16 == From("CHIP_NAVI21")
        c20 == Block("CHIP_NAVI10", "CHIP_GFX1013")
        c8  == Block("CHIP_POLARIS10", "CHIP_VEGAM")
        c10 == ASIC_NAME \ (c16 \cup c20 \cup c8)
    IN  /\ c16 \cap c20 = {} /\ c16 \cap c8 = {} /\ c20 \cap c8 = {}
        /\ c16 \cup c20 \cup c8 \cup c10 = ASIC_NAME
        /\ call = "max_wave64_per_simd" =>
            /\ asic \in c16 => ret_num = 16
            /\ asic \in c20 => ret_num = 20
            /\ asic \in c8 => ret_num = 8
            /\ asic \in c10 => ret_num = 10

\* C7 witness: the first variant after the Polaris block falls back to 10
C7_Witness ==
    call = "max_wave64_per_simd" /\ asic = "CHIP_VEGA10" /\ ret_num = 10

\* the variants that have an arm of their own in get_gfx_target_name
GfxTargetEntries ==
    Block("CHIP_TAHITI", "CHIP_ALDEBARAN")
        \cup Block("CHIP_NAVI10", "CHIP_GFX1103_R2")

\* C8: get_gfx_target_name(CHIP_NAVI22) is "gfx1031", get_gfx_target_name(CHIP_UNKNOWN)
\* is "", every variant without an entry in the target-name table (all pre-GFX6
\* variants included) returns "", and every non-empty result starts with "gfx".
C8_GfxTargetName ==
    call = "get_gfx_target_name" =>
        /\ asic = "CHIP_NAVI22" => ret = "gfx1031"
        /\ asic = "CHIP_UNKNOWN" => ret = ""
        /\ asic \notin GfxTargetEntries <=> ret = ""
        /\ asic \in Block("CHIP_R300", "CHIP_ARUBA") => ret = ""
        /\ ret # "" => Len(ret) >= 3 /\ SubSeq(ret, 1, 3) = "gfx"

\* C8 witness: the named fixed point
C8_Witness ==
    call = "get_gfx_target_name" /\ asic = "CHIP_NAVI22" /\ ret = "gfx1031"

\* C8 second case reached as well: a variant without an entry
C8_NoEntryWitness ==
    call = "get_gfx_target_name" /\ asic = "CHIP_GFX1150" /\ ret = ""

\* C9: get_llvm_processor_name returns gfx1031, gfx1032, gfx1033 for CHIP_NAVI22,
\* CHIP_NAVI23, CHIP_VANGOGH when llvm_major_ver >= 12 and "gfx1030" below;
\* gfx1034, gfx1035 for CHIP_NAVI24, CHIP_REMBRANDT when llvm_major_ver >= 13 and
\* "gfx1030" below; for every other variant the result is the same for every
\* llvm_major_ver.
C9_LlvmDowngrade ==
    call = "get_llvm_processor_name" =>
        /\ asic = "CHIP_NAVI22" =>
              ret = IF llvm_major_ver >= 12 THEN "gfx1031" ELSE "gfx1030"
        /\ asic = "CHIP_NAVI23" =>
              ret = IF llvm_major_ver >= 12 THEN "gfx1032" ELSE "gfx1030"
        /\ asic = "CHIP_VANGOGH" =>
              ret = IF llvm_major_ver >= 12 THEN "gfx1033" ELSE "gfx1030"
        /\ asic = "CHIP_NAVI24" =>
              ret = IF llvm_major_ver >= 13 THEN "gfx1034" ELSE "gfx1030"
        /\ asic = "CHIP_REMBRANDT" =>
              ret = IF llvm_major_ver >= 13 THEN "gfx1035" ELSE "gfx1030"
        /\ asic \notin {"CHIP_NAVI22", "CHIP_NAVI23", "CHIP_VANGOGH",
                        "CHIP_NAVI24", "CHIP_REMBRANDT"} =>
              \A ver \in LlvmVersions : get_llvm_processor_name(asic, ver) = ret

\* C9 witness: exactly at the lower threshold the native name is returned
C9_Witness ==
    call = "get_llvm_processor_name" /\ asic = "CHIP_NAVI23"
        /\ llvm_major_ver = 12 /\ ret = "gfx1032"

\* C9 second case reached as well: one version below the upper threshold
C9_DowngradedWitness ==
    call = "get_llvm_processor_name" /\ asic = "CHIP_NAVI24"
        /\ llvm_major_ver = 12 /\ ret = "gfx1030"

\* C10: RB+ eligibility is a two-stage gate: rbplus_allowed(v) implies has_rbplus(v)
\* (v = CHIP_STONEY or v >= CHIP_VEGA10); rbplus_allowed holds exactly for
\* CHIP_STONEY, CHIP_VEGA12, CHIP_RAVEN, CHIP_RAVEN2, CHIP_RENOIR and every variant
\* >= CHIP_NAVI21; it is false for CHIP_VEGA10, CHIP_VEGA20, CHIP_ARCTURUS,
\* CHIP_ALDEBARAN, CHIP_GFX940 and CHIP_NAVI10..=CHIP_GFX1013 although they have
\* RB+ hardware.
C10_RbplusGate ==
    LET hw == {"CHIP_STONEY"} \cup From("CHIP_VEGA10")
        allowed == {"CHIP_STONEY", "CHIP_VEGA12", "CHIP_RAVEN", "CHIP_RAVEN2",
                    "CHIP_RENOIR"} \cup From("CHIP_NAVI21")
        denied == {"CHIP_VEGA10", "CHIP_VEGA20", "CHIP_ARCTURUS", "CHIP_ALDEBARAN",
                   "CHIP_GFX940"} \cup Block("CHIP_NAVI10", "CHIP_GFX1013")
    IN  call = "rbplus_allowed" =>
            /\ has_rbplus(asic) <=> asic \in hw
            /\ ret_bool => has_rbplus(asic)
            /\ ret_bool <=> asic \in allowed
            /\ asic \in denied => ~ret_bool /\ has_rbplus(asic)

\* C10 witness: the one allowed variant below CHIP_VEGA10
C10_Witness ==
    call = "rbplus_allowed" /\ asic = "CHIP_STONEY" /\ ret_bool = TRUE

\* C10 second case reached as well: RB+ hardware present but not allowed
C10_DeniedWitness ==
    call = "rbplus_allowed" /\ asic = "CHIP_GFX940" /\ ret_bool = FALSE

-----------------------------------------------------------------------------
(* Claims about Display and the ordering, checked under SpecQuery          *)

\* C11: the Display label is defined and non-empty for every ASIC_NAME variant,
\* CHIP_UNKNOWN displays as "Unknown", and no two distinct variants share a label.
C11_DisplayLabels ==
    /\ { DisplayLabels[i][1] : i \in 1..Len(DisplayLabels) } = ASIC_NAME
    /\ call = "fmt" =>
        /\ ret \in STRING /\ ret # NoValue /\ Len(ret) > 0
        /\ asic = "CHIP_UNKNOWN" <=> ret = "Unknown"
        /\ \A w \in ASIC_NAME \ {asic} : fmt(w) # ret

\* C11 witness: the sentinel has been displayed
C11_Witness ==
    call = "fmt" /\ asic = "CHIP_UNKNOWN" /\ ret = "Unknown"

\* the hardware generations named by the comments of enum ASIC_NAME, oldest first
Generations ==
    << \* GFX6 (Southern Islands)
       { "CHIP_TAHITI", "CHIP_PITCAIRN", "CHIP_VERDE", "CHIP_OLAND", "CHIP_HAINAN" },
       \* GFX7 (Sea Islands)
       { "CHIP_BONAIRE", "CHIP_LIVERPOOL", "CHIP_GLADIUS", "CHIP_KAVERI", "CHIP_KABINI",
         "CHIP_HAWAII" },
       \* GFX8 (Volcanic Islands & Polaris)
       { "CHIP_TONGA", "CHIP_ICELAND", "CHIP_CARRIZO", "CHIP_FIJI", "CHIP_STONEY",
         "CHIP_POLARIS10", "CHIP_POLARIS11", "CHIP_POLARIS12", "CHIP_VEGAM" },
       \* GFX9 (Vega)
       { "CHIP_VEGA10", "CHIP_VEGA12", "CHIP_VEGA20", "CHIP_RAVEN", "CHIP_RAVEN2",
         "CHIP_RENOIR", "CHIP_ARCTURUS", "CHIP_ALDEBARAN", "CHIP_GFX940" },
       \* GFX10.1 (RDNA 1)
       { "CHIP_NAVI10", "CHIP_NAVI12", "CHIP_NAVI14", "CHIP_GFX1013" },
       \* GFX10.3 (RDNA 2)
       { "CHIP_NAVI21", "CHIP_NAVI22", "CHIP_VANGOGH", "CHIP_NAVI23", "CHIP_NAVI24",
         "CHIP_REMBRANDT", "CHIP_GFX1036" },
       \* GFX11 (RDNA 3)
       { "CHIP_GFX1100", "CHIP_GFX1101", "CHIP_GFX1102", "CHIP_GFX1103_R1",
         "CHIP_GFX1103_R2", "CHIP_GFX1103_R1X", "CHIP_GFX1103_R2X" },
       \* GFX11.5 (RDNA 3.5)
       { "CHIP_GFX1150", "CHIP_GFX1151", "CHIP_GFX1152", "CHIP_GFX1153" },
       \* GFX12 (RDNA 4)
       { "CHIP_GFX1200", "CHIP_GFX1201" } >>

\* position of each variant's generation in Generations; 0 for CHIP_UNKNOWN and the
\* GFX2..GFX5 cores
Ranks ==
    [ v \in ASIC_NAME |->
        IF \E g \in 1..Len(Generations) : v \in Generations[g]
        THEN CHOOSE g \in 1..Len(Generations) : v \in Generations[g]
        ELSE 0 ]

Rank(v) == Ranks[v]

\* the variants the capability rules compare against with `>=`
Thresholds ==
    { "CHIP_POLARIS10", "CHIP_VEGA10", "CHIP_NAVI10", "CHIP_NAVI12", "CHIP_NAVI21",
      "CHIP_GFX1100", "CHIP_GFX1200" }

\* C12: the ASIC_NAME ordering follows hardware generation order.  For the variant
\* v a query is applied to: CHIP_UNKNOWN has discriminant 0 and is less than every
\* named variant; each generation GFX6..GFX12 is a contiguous block (a variant lying
\* between two members of a generation belongs to it); every variant of a later
\* generation compares strictly greater than v; and for each threshold X, v >= X is
\* true when v's generation is after X's and false when it is before X's.
C12_GenerationOrder ==
    /\ Discriminant("CHIP_UNKNOWN") = 0
    /\ asic # "CHIP_UNKNOWN" => Ge(asic, "CHIP_UNKNOWN") /\ ~Ge("CHIP_UNKNOWN", asic)
    /\ \A g \in 1..Len(Generations) :
          (\E a, b \in Generations[g] : Ge(asic, a) /\ Ge(b, asic)) => asic \in Generations[g]
    /\ \A w \in ASIC_NAME :
          Rank(asic) >= 1 /\ Rank(w) > Rank(asic) => Ge(w, asic) /\ ~Ge(asic, w)
    /\ \A X \in Thresholds :
          /\ Rank(asic) > Rank(X) => Ge(asic, X)
          /\ Rank(asic) < Rank(X) => ~Ge(asic, X)

\* C12 witness: a threshold rule (v >= CHIP_NAVI21) has been applied to a variant of
\* a later generation than the threshold's
C12_Witness ==
    call = "max_wave64_per_simd" /\ asic = "CHIP_GFX1200" /\ ret_num = 16

-----------------------------------------------------------------------------
(* Claims relating the classifier and the queries                          *)

\* every variant ASIC_NAME::get returns for some family and revision
GetRange == { get(f, r) : f \in FAMILY_NAME, r \in Revisions }

\* every variant ASIC_NAME::get returns for an 8-bit revision
GetRange8 == { get(f, r) : f \in FAMILY_NAME, r \in 0..255 }

\* every variant ASIC_NAME::get returns in the families SI, CI, KV and VI
GetRangePreVega == { get(f, r) : f \in {"SI", "CI", "KV", "VI"}, r \in Revisions }

\* C14 (checked under SpecQuery): every named variant that ASIC_NAME::get can return
\* has an entry in the target-name tables: for a classifier output,
\* get_gfx_target_name returns "" only for CHIP_UNKNOWN, and so does
\* get_llvm_processor_name for every llvm_major_ver.
C14_ClassifiedHaveTargetNames ==
    call \in NameQueries /\ asic \in GetRange /\ ret = "" => asic = "CHIP_UNKNOWN"

\* C15 (checked under SpecQuery): has_packed_math_16bit(v) holds exactly when
\* v >= CHIP_VEGA10; has_accelerated_dot_product(v) holds exactly when v is
\* CHIP_VEGA20, CHIP_ARCTURUS, CHIP_ALDEBARAN or v >= CHIP_NAVI12, and so implies
\* has_packed_math_16bit(v); both are false for every variant classified from the
\* families SI, CI, KV and VI.
C15_PackedMathAndDotProduct ==
    /\ call = "has_packed_math_16bit" =>
        /\ ret_bool <=> asic \in From("CHIP_VEGA10")
        /\ asic \in GetRangePreVega => ~ret_bool
    /\ call = "has_accelerated_dot_product" =>
        /\ ret_bool <=> asic \in {"CHIP_VEGA20", "CHIP_ARCTURUS", "CHIP_ALDEBARAN"}
                                    \cup From("CHIP_NAVI12")
        /\ ret_bool => has_packed_math_16bit(asic)
        /\ asic \in GetRangePreVega => ~ret_bool

\* C15 witness: dot product on a Vega variant below CHIP_NAVI12
C15_Witness ==
    call = "has_accelerated_dot_product" /\ asic = "CHIP_VEGA20" /\ ret_bool = TRUE

\* C15 second case reached as well: packed math refused to the last VI variant
C15_PreVegaWitness ==
    call = "has_packed_math_16bit" /\ asic = "CHIP_VEGAM" /\ asic \in GetRangePreVega
        /\ ret_bool = FALSE

\* C16 (checked under SpecQuery): num_simd_per_cu and cu_group switch at the same
\* threshold: (num_simd_per_cu, cu_group) is (2, 2) exactly when v >= CHIP_NAVI10 and
\* (4, 1) otherwise, so their product is 4 for every variant including CHIP_UNKNOWN.
C16_SimdAndCuGroup ==
    /\ call = "num_simd_per_cu" =>
        /\ ret_num = IF asic \in From("CHIP_NAVI10") THEN 2 ELSE 4
        /\ cu_group(asic) * ret_num = 4
    /\ call = "cu_group" =>
        /\ ret_num = IF asic \in From("CHIP_NAVI10") THEN 2 ELSE 1
        /\ ret_num * num_simd_per_cu(asic) = 4

\* C16 witness: the first variant with two SIMDs per CU
C16_Witness ==
    call = "cu_group" /\ asic = "CHIP_NAVI10" /\ ret_num = 2

\* C17 (checked under SpecQuery): for every v < CHIP_NAVI10 (CHIP_UNKNOWN included)
\* gl1_cache_size and l3_cache_size_mb_per_channel are 0;
\* l3_cache_size_mb_per_channel(v) > 0 implies v >= CHIP_NAVI21; gl1_cache_size is
\* 128 KiB for CHIP_NAVI10..=CHIP_GFX1036, 256 KiB for CHIP_GFX1100..=CHIP_GFX1153
\* and 0 for v >= CHIP_GFX1200.
C17_NaviOnlyCaches ==
    /\ call = "gl1_cache_size" =>
        /\ asic \notin From("CHIP_NAVI10") => ret_num = 0
        /\ asic \in Block("CHIP_NAVI10", "CHIP_GFX1036") => ret_num = 131072
        /\ asic \in Block("CHIP_GFX1100", "CHIP_GFX1153") => ret_num = 262144
        /\ asic \in From("CHIP_GFX1200") => ret_num = 0
    /\ call = "l3_cache_size_mb_per_channel" =>
        /\ asic \notin From("CHIP_NAVI10") => ret_num = 0
        /\ ret_num > 0 => asic \in From("CHIP_NAVI21")

\* C17 witness: GFX12 reports no GL1 cache
C17_Witness ==
    call = "gl1_cache_size" /\ asic = "CHIP_GFX1200" /\ ret_num = 0

\* C17 second case reached as well: an L3 cache is reported
C17_L3Witness ==
    call = "l3_cache_size_mb_per_channel" /\ asic = "CHIP_GFX1151" /\ ret_num = 2

\* C18 (checked under SpecQuery): for every variant and llvm_major_ver,
\* get_llvm_processor_name is "" exactly when get_gfx_target_name is ""; for every
\* variant >= CHIP_VEGA10 and llvm_major_ver >= 13 the two return the same name.
C18_TargetNamesAgree ==
    /\ call = "get_llvm_processor_name" =>
        /\ ret = "" <=> get_gfx_target_name(asic) = ""
        /\ asic \in From("CHIP_VEGA10") /\ llvm_major_ver >= 13
              => ret = get_gfx_target_name(asic)
    /\ call = "get_gfx_target_name" =>
        /\ \A ver \in LlvmVersions : ret = "" <=> get_llvm_processor_name(asic, ver) = ""
        /\ asic \in From("CHIP_VEGA10") =>
              \A ver \in LlvmVersions : ver >= 13 => get_llvm_processor_name(asic, ver) = ret

\* C18 witness: a downgradable variant at the version from which both names agree
C18_Witness ==
    call = "get_llvm_processor_name" /\ asic = "CHIP_REMBRANDT" /\ llvm_major_ver = 13
        /\ ret = "gfx1035"

\* C19 (checked under SpecGet): ASIC_NAME::get never returns a pre-GFX6 variant
\* (CHIP_R300 through CHIP_ARUBA), CHIP_CARRIZO or CHIP_STONEY; every other named
\* variant from CHIP_TAHITI through CHIP_GFX1201 is returned for at least one
\* family and a revision in 0..=255.
C19_ClassifierRange ==
    call = "get" =>
        /\ ret \notin Block("CHIP_R300", "CHIP_ARUBA") \cup {"CHIP_CARRIZO", "CHIP_STONEY"}
        /\ Block("CHIP_TAHITI", "CHIP_GFX1201") \ {"CHIP_CARRIZO", "CHIP_STONEY"}
              \subseteq GetRange8

\* C19 witness: the variant that only a single revision value reaches
C19_Witness ==
    call = "get" /\ family = "NV" /\ rev = \h84 /\ ret = "CHIP_GFX1013"

-----------------------------------------------------------------------------
\* C20: amdgpu_device_deinitialize is called exactly once per DeviceHandle,
\* when it is dropped, and only for a handle whose amdgpu_device_initialize
\* call returned 0; when amdgpu_device_initialize returns an error code,
\* DeviceHandle::init returns Err with that code, without a call of
\* amdgpu_device_deinitialize and without a panic.
C20_DeinitOnlyAfterSuccessfulInit ==
    \A i \in DOMAIN devices :
        LET h == devices[i]
        IN  /\ h.deinitialize_calls = (IF h.dropped THEN 1 ELSE 0)
            /\ h.deinitialize_calls > 0 => h.initialize = 0
            /\ h.initialize # 0 =>
                 /\ h.returned = "Err"
                 /\ h.err = h.initialize
                 /\ h.deinitialize_calls = 0

=============================================================================
